---- MODULE Spec2Model ----
(***************************************************************************)
(* Model of Notebooks/"HMM Baum-Welch PyTorch .ipynb": the frequency-count *)
(* initializers, the forward and backward recursions, the posteriors and   *)
(* the re-estimation step, as the notebook's cells compute them.           *)
(*                                                                         *)
(* Tensor entries are exact non-negative rationals <<n, d>> in lowest      *)
(* terms.  torch.div does not raise on a zero divisor: it yields inf or    *)
(* nan, which are modelled as <<1, 0>> and <<0, 0>> and propagate through  *)
(* the arithmetic the way IEEE-754 values do.  Vectors, matrices and       *)
(* sequences are functions indexed from 0, as in the source.               *)
(***************************************************************************)
EXTENDS Integers, Sequences, FiniteSets, TLC

\* ------------------------------------------------------------------------
\* Bounds of the explored inputs
\* ------------------------------------------------------------------------
\* probabilities of the explored models are the multiples of 1/Grain
Grain == 2
\* longest explored observation sequence
MaxT == 2
\* longest explored labeled sequence given to the initializers
MaxLabelLen == 3

\* ------------------------------------------------------------------------
\* float64 arithmetic on non-negative values
\* ------------------------------------------------------------------------
Zero == <<0, 1>>
One == <<1, 1>>
Inf == <<1, 0>>
NaN == <<0, 0>>

IsNaN(x) == x = NaN
IsInf(x) == x = Inf
IsFinite(x) == x[2] > 0

RECURSIVE GCD(_, _)
GCD(a, b) == IF b = 0 THEN a ELSE GCD(b, a % b)

\* the value n/d (n >= 0, d > 0) in lowest terms
Frac(n, d) == LET g == GCD(n, d) IN <<n \div g, d \div g>>

\* Python's and torch's  x * y
Mul(x, y) ==
    IF IsNaN(x) \/ IsNaN(y) THEN NaN
    ELSE IF IsInf(x) THEN (IF y = Zero THEN NaN ELSE Inf)
    ELSE IF IsInf(y) THEN (IF x = Zero THEN NaN ELSE Inf)
    ELSE LET g1 == GCD(x[1], y[2])
             g2 == GCD(y[1], x[2])
         IN  IF x[1] = 0 \/ y[1] = 0 THEN Zero
             ELSE <<(x[1] \div g1) * (y[1] \div g2),
                    (x[2] \div g2) * (y[2] \div g1)>>

\* Python's and torch's  x + y
Add(x, y) ==
    IF IsNaN(x) \/ IsNaN(y) THEN NaN
    ELSE IF IsInf(x) \/ IsInf(y) THEN Inf
    ELSE LET g == GCD(x[2], y[2])
         IN  Frac(x[1] * (y[2] \div g) + y[1] * (x[2] \div g),
                  (x[2] \div g) * y[2])

\* torch.div(x, y): a zero divisor gives inf or nan, never an exception
Div(x, y) ==
    IF IsNaN(x) \/ IsNaN(y) THEN NaN
    ELSE IF IsInf(x) THEN (IF IsInf(y) THEN NaN ELSE Inf)
    ELSE IF IsInf(y) THEN Zero
    ELSE IF y = Zero THEN (IF x = Zero THEN NaN ELSE Inf)
    ELSE Mul(x, <<y[2], y[1]>>)

\* the sum of f[0], ..., f[k-1]  (tensor.sum over one dimension)
RECURSIVE SumUpTo(_, _)
SumUpTo(f, k) == IF k = 0 THEN Zero ELSE Add(SumUpTo(f, k - 1), f[k - 1])

\* a tensor held as a table of its values, not as the rule computing them
Stored(f) == IF f = f THEN f ELSE f

\* number of entries of a 0-indexed vector / rows of a matrix
Size(f) == Cardinality(DOMAIN f)

VecSum(v) == SumUpTo(v, Size(v))

\* a finite value rounded to 4 decimal places, as the integer 10^4 * value
\* (long division, one decimal digit at a time)
RECURSIVE Digits(_, _, _, _)
Digits(q, r, d, k) ==
    IF k = 0 THEN (IF 2 * r >= d THEN q + 1 ELSE q)
    ELSE Digits(10 * q + ((10 * r) \div d), (10 * r) % d, d, k - 1)

Round4(x) == Digits(x[1] \div x[2], x[1] % x[2], x[2], 4)

\* ------------------------------------------------------------------------
\* State
\* ------------------------------------------------------------------------
VARIABLES
    \* the notebook's ambient variables (set by the fixture cell)
    obs_sequence, pi, A, emission_matrix, alpha, beta,
    \* the names bound by the re-estimation cell
    new_pi, new_transition_matrix, new_emission_matrix,
    \* the log argument given to forward and to backward ("unset" before)
    alpha_log, beta_log,
    \* the next cell to run, and the exception that stopped the run
    pc, raised,
    \* the labeled example given to the initializers and what they returned
    hid_seq, lab_obs_seq, init_pi, init_A, init_B,
    \* two calls of re_estimate_parameters: the arguments given and the outcome
    first_call, second_call

em_vars == <<obs_sequence, pi, A, emission_matrix, alpha, beta, new_pi,
             new_transition_matrix, new_emission_matrix, alpha_log,
             beta_log, pc, raised>>
init_vars == <<hid_seq, lab_obs_seq, init_pi, init_A, init_B>>
call_vars == <<first_call, second_call>>
vars == <<em_vars, init_vars, call_vars>>

\* a rows x cols tensor of zeros (torch.zeros)
Zeros(rows, cols) == [i \in 0..(rows - 1) |-> [t \in 0..(cols - 1) |-> Zero]]

\* number of columns of a tensor that has at least one row
Cols(m) == Size(m[0])

\* column t of a tensor, m[:, t]
Column(m, t) == Stored([i \in DOMAIN m |-> m[i][t]])

\* the tensor whose columns are cols[0], cols[1], ...
FromColumns(cols, rows) ==
    Stored([i \in 0..(rows - 1) |-> [t \in DOMAIN cols |-> cols[t][i]]])

\* torch.div(v, v.sum())
Scaled(v) == LET s == VecSum(v) IN Stored([i \in DOMAIN v |-> Div(v[i], s)])

\* ------------------------------------------------------------------------
\* Expectation procedure
\* ------------------------------------------------------------------------
\* ForwardColumn with the transition matrix read transposed
RECURSIVE ForwardColumnTransposed(_, _, _, _, _, _)
ForwardColumnTransposed(em, log, g_pi, g_obs, g_A, t) ==
    IF t = 0
    THEN LET alpha_initial ==
                 Stored([i \in DOMAIN g_pi |-> Mul(g_pi[i], em[i][g_obs[0]])])
         IN  IF log THEN Scaled(alpha_initial) ELSE alpha_initial
    ELSE LET prev == ForwardColumnTransposed(em, log, g_pi, g_obs, g_A, t - 1)
             forward_probability ==
                 Stored([i \in DOMAIN g_pi |->
                     Mul(VecSum([j \in DOMAIN g_pi |-> Mul(prev[j], g_A[i][j])]),
                         em[i][g_obs[t]])])
         IN  IF log THEN Scaled(forward_probability) ELSE forward_probability

\* column t of the forward table
RECURSIVE ForwardColumn(_, _, _, _, _, _)
ForwardColumn(em, log, g_pi, g_obs, g_A, t) ==
    IF t = 0
    THEN LET alpha_initial ==
                 Stored([i \in DOMAIN g_pi |-> Mul(g_pi[i], em[i][g_obs[0]])])
         IN  IF log THEN Scaled(alpha_initial) ELSE alpha_initial
    ELSE LET prev == ForwardColumn(em, log, g_pi, g_obs, g_A, t - 1)
             current_probability ==
                 Stored([i \in DOMAIN g_pi |->
                     VecSum([j \in DOMAIN g_pi |-> Mul(prev[j], g_A[j][i])])])
             forward_probability ==
                 Stored([i \in DOMAIN g_pi |->
                     Mul(current_probability[i], em[i][g_obs[t]])])
         IN  IF log THEN Scaled(forward_probability) ELSE forward_probability

\* forward(emission_matrix, log), reading the ambient pi, obs_sequence and A
\* and filling every column of the ambient alpha
forward(em, log, g_pi, g_obs, g_A) ==
    FromColumns(Stored([t \in DOMAIN g_obs |->
                            ForwardColumn(em, log, g_pi, g_obs, g_A, t)]),
                Size(g_pi))

\* the initialization of backward writes a vector of two ones into the
\* last column of beta
BetaInitial == [i \in 0..1 |-> One]

\* column t of the backward table of an observation of length T
RECURSIVE BackwardColumn(_, _, _, _, _, _)
BackwardColumn(observation, log, g_em, g_A, T, t) ==
    IF t = T - 1
    THEN BetaInitial
    ELSE LET next == BackwardColumn(observation, log, g_em, g_A, T, t + 1)
             obs == observation[t + 1]
             _beta == Stored([i \in DOMAIN g_A |->
                          VecSum([j \in DOMAIN g_A |->
                              Mul(Mul(g_em[j][obs], g_A[i][j]), next[j])])])
         IN  IF log THEN Scaled(_beta) ELSE _beta

\* backward(observation, log) raises when the two-element vector does not
\* fit a column of the ambient beta
backward_raises(g_beta) == Size(g_beta) # Size(BetaInitial)

\* backward(observation, log), reading the ambient emission_matrix and A and
\* filling every column of the ambient beta
backward(observation, log, g_em, g_A, g_beta) ==
    FromColumns(Stored([t \in DOMAIN observation |->
                    BackwardColumn(observation, log, g_em, g_A, Size(observation), t)]),
                Size(g_beta))

\* ------------------------------------------------------------------------
\* Maximization procedure
\* ------------------------------------------------------------------------
\* numerator of calculate_gammas: torch.mul(alpha, beta)
gamma_numerator(p_alpha, p_beta) ==
    Stored([i \in DOMAIN p_alpha |->
               [t \in DOMAIN p_alpha[i] |-> Mul(p_alpha[i][t], p_beta[i][t])]])

\* denomenator of calculate_gammas: torch.sum(numerator, dim = 0)
gamma_denomenator(p_alpha, p_beta) ==
    LET numerator == gamma_numerator(p_alpha, p_beta)
    IN  Stored([t \in DOMAIN p_alpha[0] |-> VecSum(Column(numerator, t))])

\* calculate_gammas(alpha, beta)
calculate_gammas(p_alpha, p_beta) ==
    LET numerator == gamma_numerator(p_alpha, p_beta)
        denomenator == gamma_denomenator(p_alpha, p_beta)
    IN  Stored([i \in DOMAIN p_alpha |->
            [t \in DOMAIN p_alpha[i] |-> Div(numerator[i][t], denomenator[t])]])

\* alpha[:, :-1] and step_gammas[:, :-1]: the tensor without its last column
DropLastColumn(m) ==
    Stored([i \in DOMAIN m |-> [t \in 0..(Size(m[i]) - 2) |-> m[i][t]]])

\* numerator of step t of calculate_zetas, for the column fwd of alpha
zeta_numerator(fwd, t, obs_seq, g_A, g_em, g_beta) ==
    Stored([i \in DOMAIN g_A |-> [j \in DOMAIN g_A |->
        Mul(Mul(Mul(fwd[i], g_A[i][j]), g_em[j][obs_seq[t + 1]]),
            g_beta[j][t + 1])]])

\* denomenator of step t: torch.sum(numerator, dim=0).sum(dim=0)
zeta_denomenator(fwd, t, obs_seq, g_A, g_em, g_beta) ==
    LET numerator == zeta_numerator(fwd, t, obs_seq, g_A, g_em, g_beta)
    IN  VecSum(Stored([j \in DOMAIN g_A |-> VecSum(Column(numerator, j))]))

\* the zeta of one step t of calculate_zetas: a square matrix
zeta_step(fwd, t, obs_seq, g_A, g_em, g_beta) ==
    LET numerator == zeta_numerator(fwd, t, obs_seq, g_A, g_em, g_beta)
        denomenator == zeta_denomenator(fwd, t, obs_seq, g_A, g_em, g_beta)
    IN  Stored([i \in DOMAIN g_A |-> [j \in DOMAIN g_A |->
            Div(numerator[i][j], denomenator)]])

\* torch.stack raises on the empty list that calculate_zetas builds from
\* an alpha without columns
calculate_zetas_raises(p_alpha) == Cols(p_alpha) = 0

\* calculate_zetas(alpha, obs_seq), reading the ambient A, emission_matrix
\* and beta: the sum over the columns of alpha of the per-step zetas
calculate_zetas(p_alpha, obs_seq, g_A, g_em, g_beta) ==
    LET zetas == Stored([t \in DOMAIN p_alpha[0] |->
                     zeta_step(Column(p_alpha, t), t, obs_seq, g_A, g_em, g_beta)])
    IN  Stored([i \in DOMAIN g_A |-> [j \in DOMAIN g_A |->
            SumUpTo([t \in DOMAIN zetas |-> zetas[t][i][j]], Size(zetas))]])

\* set(obs_sequence) in iteration order: the distinct symbols, ascending
\* (a set of small integers iterates in the order of their hashes)
RECURSIVE Ascending(_)
Ascending(S) ==
    IF S = {} THEN <<>>
    ELSE LET m == CHOOSE x \in S : \A y \in S : x <= y
         IN  <<m>> \o Ascending(S \ {m})

Range(f) == {f[x] : x \in DOMAIN f}

\* np.where(obs_sequence == searchval)[0] for each searchval of the set,
\* as a 0-indexed list of sets of positions
state_indices(g_obs) ==
    LET symbols == Ascending(Range(g_obs))
    IN  Stored([k \in 0..(Len(symbols) - 1) |->
            {t \in DOMAIN g_obs : g_obs[t] = symbols[k + 1]}])

\* expected_output_occurrence(index, step_gammas, summed_gammas)
expected_output_occurrence(index, step_gammas, summed_gammas) ==
    LET sum_filtered_gamma ==
            Stored([i \in DOMAIN step_gammas |->
                SumUpTo([t \in DOMAIN step_gammas[i] |->
                            IF t \in index THEN step_gammas[i][t] ELSE Zero],
                        Size(step_gammas[i]))])
    IN  Stored([i \in DOMAIN step_gammas |->
            Div(sum_filtered_gamma[i], summed_gammas[i])])

\* torch.sum(m, dim = 1): the sum of every row
RowSums(m) == Stored([i \in DOMAIN m |-> VecSum(m[i])])

\* summed_gammas_A without the slice that drops the last column
summed_gammas_A_unsliced(step_gammas) == RowSums(step_gammas)

\* the divisor of the transition re-estimate (source line 440)
summed_gammas_A(step_gammas) == RowSums(DropLastColumn(step_gammas))

\* the divisor of the emission re-estimate (source line 449)
summed_gammas_B(step_gammas) == RowSums(step_gammas)

\* re_estimate_parameters(emission_matrix, alpha, beta) raises where its
\* call of calculate_zetas does
re_estimate_raises(p_alpha) == calculate_zetas_raises(DropLastColumn(p_alpha))

\* re_estimate_parameters(emission_matrix, alpha, beta), reading the ambient
\* obs_sequence and, through calculate_zetas, the ambient A, emission_matrix
\* and beta: <<new_pi, new_transition_matrix, new_emission_matrix>>.  The
\* emission matrix has one column for each element of state_indices.
re_estimate_parameters(p_em, p_alpha, p_beta, g_obs, g_A, g_em, g_beta) ==
    LET step_gammas == calculate_gammas(p_alpha, p_beta)
        new_pi_ == Column(step_gammas, 0)
        summed_zetas ==
            calculate_zetas(DropLastColumn(p_alpha), g_obs, g_A, g_em, g_beta)
        summed_gammas_1 == summed_gammas_A(step_gammas)
        new_transition_matrix_ ==
            Stored([i \in DOMAIN summed_zetas |-> [j \in DOMAIN summed_zetas[i] |->
                Div(summed_zetas[i][j], summed_gammas_1[i])]])
        summed_gammas_2 == summed_gammas_B(step_gammas)
        indices == state_indices(g_obs)
        rows == Stored([k \in DOMAIN indices |->
                    expected_output_occurrence(indices[k], step_gammas,
                                               summed_gammas_2)])
        new_emission_matrix_ ==
            Stored([i \in DOMAIN step_gammas |-> [k \in DOMAIN rows |-> rows[k][i]]])
    IN  <<new_pi_, new_transition_matrix_, new_emission_matrix_>>

\* ------------------------------------------------------------------------
\* Estimate initial parameters
\* ------------------------------------------------------------------------
\* Counter(sequence)[x]
CountOf(sequence, x) == Cardinality({t \in DOMAIN sequence : sequence[t] = x})

\* hidden_state_init(sequence): a dictionary keyed by the values of the
\* Counter (the counts), each mapped to count / len(sequence), read out in
\* the order of its sorted keys
hidden_state_init(sequence) ==
    LET keys == Ascending({CountOf(sequence, x) : x \in Range(sequence)})
    IN  Stored([k \in 0..(Len(keys) - 1) |-> Frac(keys[k + 1], Size(sequence))])

\* the tuples trans_mat_init appends: (sequence[i-1], sequence[i]), by the
\* position i of their second element
transition_positions(sequence) == DOMAIN sequence \ {0}

\* Counter(chain(*sequences))[(a, b)]
transition_count(sequence, a, b) ==
    Cardinality({i \in transition_positions(sequence) :
                    sequence[i - 1] = a /\ sequence[i] = b})

\* trans_mat_init raises IndexError when it writes a transition outside the
\* len(set(sequence)) x len(set(sequence)) matrix
trans_mat_init_raises(sequence) ==
    LET seq_set_length == Cardinality(Range(sequence))
    IN  \E i \in transition_positions(sequence) :
            sequence[i - 1] >= seq_set_length \/ sequence[i] >= seq_set_length

\* trans_mat_init(sequence)
trans_mat_init(sequence) ==
    LET seq_set_length == Cardinality(Range(sequence))
    IN  Stored([a \in 0..(seq_set_length - 1) |-> [b \in 0..(seq_set_length - 1) |->
            IF transition_count(sequence, a, b) = 0 THEN Zero
            ELSE Frac(transition_count(sequence, a, b), CountOf(sequence, a))]])

\* the positions zip(hid_seq, obs_seq) pairs up: those of the shorter one
zip_positions(p_hid, p_obs) == DOMAIN p_hid \cap DOMAIN p_obs

\* Counter(chain(*hid_emi_seq))[(h, o)]
emission_count(p_hid, p_obs, h, o) ==
    Cardinality({t \in zip_positions(p_hid, p_obs) : p_hid[t] = h /\ p_obs[t] = o})

\* emiss_state_init raises IndexError when it writes a pair outside the
\* len(set(hid_seq)) x len(set(obs_seq)) matrix
emiss_state_init_raises(p_hid, p_obs) ==
    \E t \in zip_positions(p_hid, p_obs) :
        \/ p_hid[t] >= Cardinality(Range(p_hid))
        \/ p_obs[t] >= Cardinality(Range(p_obs))

\* emiss_state_init(hid_seq, obs_seq)
emiss_state_init(p_hid, p_obs) ==
    Stored([h \in 0..(Cardinality(Range(p_hid)) - 1) |->
               [o \in 0..(Cardinality(Range(p_obs)) - 1) |->
                   IF emission_count(p_hid, p_obs, h, o) = 0 THEN Zero
                   ELSE Frac(emission_count(p_hid, p_obs, h, o), CountOf(p_hid, h))]])

\* ------------------------------------------------------------------------
\* The explored fixtures
\* ------------------------------------------------------------------------
\* numbers of hidden states of the explored models: backward only succeeds
\* for two states (BetaInitial), one other size shows where it raises
StateCounts == {1, 2}
\* symbols of the explored models' alphabet
Alphabet == {0, 1}

RECURSIVE IntSum(_, _)
IntSum(c, k) == IF k = 0 THEN 0 ELSE IntSum(c, k - 1) + c[k - 1]

\* the probability vectors over the index set S on the grid of 1/Grain
StochRows(S) ==
    {[i \in S |-> Frac(c[i], Grain)] :
        c \in {c \in [S -> 0..Grain] : IntSum(c, Cardinality(S)) = Grain}}

\* a Python list or numpy array, indexed from 0
ZeroBased(list) == [i \in 0..(Len(list) - 1) |-> list[i + 1]]

Tenths(k) == Frac(k, 10)

\* the cell "Numeric example: 1 pass"
FixtureObs == ZeroBased(<<0, 1, 2, 2>>)
FixturePi == ZeroBased(<<Tenths(8), Tenths(2)>>)
FixtureA ==
    ZeroBased(<<ZeroBased(<<Tenths(6), Tenths(4)>>),
                ZeroBased(<<Tenths(3), Tenths(7)>>)>>)
FixtureB ==
    ZeroBased(<<ZeroBased(<<Tenths(3), Tenths(4), Tenths(3)>>),
                ZeroBased(<<Tenths(4), Tenths(3), Tenths(3)>>)>>)

Unbound == <<>>

\* the ambient variables after the fixture cell, for the given parameters
Fixture(o, p, a, b) ==
    /\ obs_sequence = o
    /\ pi = p
    /\ A = a
    /\ emission_matrix = b
    /\ alpha = Zeros(Size(a), Size(o))
    /\ beta = Zeros(Size(a), Size(o))
    /\ new_pi = Unbound
    /\ new_transition_matrix = Unbound
    /\ new_emission_matrix = Unbound
    /\ alpha_log = "unset"
    /\ beta_log = "unset"
    /\ pc = "forward"
    /\ raised = "none"

\* re_estimate_parameters has not been called with kept arguments
NoCall ==
    [made |-> FALSE, args |-> <<>>, obs |-> <<>>,
     out |-> [exc |-> "unset", val |-> <<>>]]

NoCalls ==
    /\ first_call = NoCall
    /\ second_call = NoCall

NoLabels ==
    /\ hid_seq = <<>>
    /\ lab_obs_seq = <<>>
    /\ init_pi = [exc |-> "unset", val |-> <<>>]
    /\ init_A = [exc |-> "unset", val |-> <<>>]
    /\ init_B = [exc |-> "unset", val |-> <<>>]

\* the fixture cell with other parameters of the same kind
FixtureGrid ==
    \E n \in StateCounts, T \in 1..MaxT :
        \E o \in [0..(T - 1) -> Alphabet],
           p \in StochRows(0..(n - 1)),
           a \in [0..(n - 1) -> StochRows(0..(n - 1))],
           b \in [0..(n - 1) -> StochRows(Alphabet)] :
             Fixture(o, p, a, b)

Init ==
    /\ NoLabels
    /\ NoCalls
    /\ \/ Fixture(FixtureObs, FixturePi, FixtureA, FixtureB)
       \/ FixtureGrid

LogName(log) == IF log THEN "True" ELSE "False"

\* alpha = forward(emission_matrix, log = ...)
ForwardCell(log) ==
    /\ pc = "forward"
    /\ \E result \in {forward(emission_matrix, log, pi, obs_sequence, A)} :
           alpha' = result
    /\ alpha_log' = LogName(log)
    /\ pc' = "backward"
    /\ UNCHANGED <<obs_sequence, pi, A, emission_matrix, beta, new_pi,
                   new_transition_matrix, new_emission_matrix, beta_log,
                   raised, init_vars, call_vars>>

\* beta = backward(obs_sequence, log = ...)
BackwardCell(log) ==
    /\ pc = "backward"
    /\ ~backward_raises(beta)
    /\ \E result \in {backward(obs_sequence, log, emission_matrix, A, beta)} :
           beta' = result
    /\ beta_log' = LogName(log)
    /\ pc' = "re_estimate"
    /\ UNCHANGED <<obs_sequence, pi, A, emission_matrix, alpha, new_pi,
                   new_transition_matrix, new_emission_matrix, alpha_log,
                   raised, init_vars, call_vars>>

\* the same cell when the initialization of backward raises
BackwardCellRaises(log) ==
    /\ pc = "backward"
    /\ backward_raises(beta)
    /\ beta_log' = LogName(log)
    /\ raised' = "RuntimeError"
    /\ pc' = "stopped"
    /\ UNCHANGED <<obs_sequence, pi, A, emission_matrix, alpha, beta, new_pi,
                   new_transition_matrix, new_emission_matrix, alpha_log,
                   init_vars, call_vars>>

\* new_pi, new_transition_matrix, new_emission_matrix =
\*     re_estimate_parameters(emission_matrix, alpha, beta)
ReEstimateCell ==
    /\ pc = "re_estimate"
    /\ ~re_estimate_raises(alpha)
    /\ \E result \in {re_estimate_parameters(emission_matrix, alpha, beta,
                                             obs_sequence, A, emission_matrix, beta)} :
           /\ new_pi' = result[1]
           /\ new_transition_matrix' = result[2]
           /\ new_emission_matrix' = result[3]
    /\ pc' = "done"
    /\ UNCHANGED <<obs_sequence, pi, A, emission_matrix, alpha, beta,
                   alpha_log, beta_log, raised, init_vars, call_vars>>

\* the same cell when torch.stack raises inside calculate_zetas
ReEstimateCellRaises ==
    /\ pc = "re_estimate"
    /\ re_estimate_raises(alpha)
    /\ raised' = "RuntimeError"
    /\ pc' = "stopped"
    /\ UNCHANGED <<obs_sequence, pi, A, emission_matrix, alpha, beta, new_pi,
                   new_transition_matrix, new_emission_matrix, alpha_log,
                   beta_log, init_vars, call_vars>>

Next ==
    \/ \E log \in BOOLEAN : ForwardCell(log)
    \/ \E log \in BOOLEAN : BackwardCell(log)
    \/ \E log \in BOOLEAN : BackwardCellRaises(log)
    \/ ReEstimateCell
    \/ ReEstimateCellRaises

Spec == Init /\ [][Next]_vars

\* ------------------------------------------------------------------------
\* The initializers on a labeled example
\* ------------------------------------------------------------------------
\* state labels of the explored labeled examples
Labels == {0, 1, 2}

Returned(v) == [exc |-> "none", val |-> v]
Raised(e) == [exc |-> e, val |-> <<>>]
NotCalled == [exc |-> "unset", val |-> <<>>]

InitLabeled ==
    /\ Fixture(FixtureObs, FixturePi, FixtureA, FixtureB)
    /\ NoCalls
    /\ \E n \in 0..MaxLabelLen, m \in 0..MaxLabelLen :
         \E h \in [0..(n - 1) -> Labels], o \in [0..(m - 1) -> Alphabet] :
            /\ hid_seq = h
            /\ lab_obs_seq = o
    /\ init_pi = NotCalled
    /\ init_A = NotCalled
    /\ init_B = NotCalled

\* init_pi = hidden_state_init(hid_seq)
HiddenStateInitCall ==
    /\ init_pi = NotCalled
    /\ \E result \in {hidden_state_init(hid_seq)} : init_pi' = Returned(result)
    /\ UNCHANGED <<em_vars, hid_seq, lab_obs_seq, init_A, init_B, call_vars>>

\* init_A = trans_mat_init(hid_seq)
TransMatInitCall ==
    /\ init_A = NotCalled
    /\ ~trans_mat_init_raises(hid_seq)
    /\ \E result \in {trans_mat_init(hid_seq)} : init_A' = Returned(result)
    /\ UNCHANGED <<em_vars, hid_seq, lab_obs_seq, init_pi, init_B, call_vars>>

TransMatInitCallRaises ==
    /\ init_A = NotCalled
    /\ trans_mat_init_raises(hid_seq)
    /\ init_A' = Raised("IndexError")
    /\ UNCHANGED <<em_vars, hid_seq, lab_obs_seq, init_pi, init_B, call_vars>>

\* init_B = emiss_state_init(hid_seq, lab_obs_seq)
EmissStateInitCall ==
    /\ init_B = NotCalled
    /\ ~emiss_state_init_raises(hid_seq, lab_obs_seq)
    /\ \E result \in {emiss_state_init(hid_seq, lab_obs_seq)} :
           init_B' = Returned(result)
    /\ UNCHANGED <<em_vars, hid_seq, lab_obs_seq, init_pi, init_A, call_vars>>

EmissStateInitCallRaises ==
    /\ init_B = NotCalled
    /\ emiss_state_init_raises(hid_seq, lab_obs_seq)
    /\ init_B' = Raised("IndexError")
    /\ UNCHANGED <<em_vars, hid_seq, lab_obs_seq, init_pi, init_A, call_vars>>

NextLabeled ==
    \/ HiddenStateInitCall
    \/ TransMatInitCall
    \/ TransMatInitCallRaises
    \/ EmissStateInitCall
    \/ EmissStateInitCallRaises

SpecInit == InitLabeled /\ [][NextLabeled]_vars

\* ------------------------------------------------------------------------
\* Two calls of re_estimate_parameters around a reassignment of an ambient
\* variable
\* ------------------------------------------------------------------------
\* the outcome of re_estimate_parameters(p_em, p_alpha, p_beta) in the
\* environment of the moment: obs_sequence, A, emission_matrix and beta are
\* the ambient variables the body and calculate_zetas read
ReEstimateOutcome(p_em, p_alpha, p_beta) ==
    IF re_estimate_raises(p_alpha)
    THEN Raised("RuntimeError")
    ELSE Returned(re_estimate_parameters(p_em, p_alpha, p_beta, obs_sequence,
                                         A, emission_matrix, beta))

MadeCall(p_em, p_alpha, p_beta, out) ==
    [made |-> TRUE, args |-> <<p_em, p_alpha, p_beta>>, obs |-> obs_sequence,
     out |-> out]

\* what the cell of the call binds: the three results, or nothing on a raise
BindResults(out) ==
    /\ raised' = out.exc
    /\ IF out.exc = "none"
       THEN /\ new_pi' = out.val[1]
            /\ new_transition_matrix' = out.val[2]
            /\ new_emission_matrix' = out.val[3]
       ELSE UNCHANGED <<new_pi, new_transition_matrix, new_emission_matrix>>

\* re_estimate_parameters(emission_matrix, alpha, beta) after forward and
\* backward, the arguments kept
FirstCall ==
    /\ pc = "re_estimate"
    /\ \E out \in {ReEstimateOutcome(emission_matrix, alpha, beta)} :
           /\ first_call' = MadeCall(emission_matrix, alpha, beta, out)
           /\ BindResults(out)
    /\ pc' = "reassign"
    /\ UNCHANGED <<obs_sequence, pi, A, emission_matrix, alpha, beta,
                   alpha_log, beta_log, init_vars, second_call>>

\* A = torch.tensor(...) with another row-stochastic matrix of the same shape
ReassignA ==
    /\ pc = "reassign"
    /\ \E a \in [DOMAIN A -> StochRows(DOMAIN A)] :
           /\ a # A
           /\ A' = a
    /\ pc' = "second_call"
    /\ UNCHANGED <<obs_sequence, pi, emission_matrix, alpha, beta, new_pi,
                   new_transition_matrix, new_emission_matrix, alpha_log,
                   beta_log, raised, init_vars, call_vars>>

\* emission_matrix = torch.tensor(...) with another row-stochastic matrix of
\* the same shape
ReassignEmission ==
    /\ pc = "reassign"
    /\ \E b \in [DOMAIN emission_matrix ->
                      StochRows(DOMAIN emission_matrix[0])] :
           /\ b # emission_matrix
           /\ emission_matrix' = b
    /\ pc' = "second_call"
    /\ UNCHANGED <<obs_sequence, pi, A, alpha, beta, new_pi,
                   new_transition_matrix, new_emission_matrix, alpha_log,
                   beta_log, raised, init_vars, call_vars>>

\* beta = torch.zeros((2, len(obs_sequence))), the fixture cell run again
ReassignBeta ==
    /\ pc = "reassign"
    /\ beta' = Zeros(Size(A), Size(obs_sequence))
    /\ beta_log' = "unset"
    /\ pc' = "second_call"
    /\ UNCHANGED <<obs_sequence, pi, A, emission_matrix, alpha, new_pi,
                   new_transition_matrix, new_emission_matrix, alpha_log,
                   raised, init_vars, call_vars>>

\* re_estimate_parameters called again with the arguments of the first call
SecondCall ==
    /\ pc = "second_call"
    /\ \E out \in {ReEstimateOutcome(first_call.args[1], first_call.args[2],
                                      first_call.args[3])} :
           /\ second_call' = MadeCall(first_call.args[1], first_call.args[2],
                                      first_call.args[3], out)
           /\ BindResults(out)
    /\ pc' = "done"
    /\ UNCHANGED <<obs_sequence, pi, A, emission_matrix, alpha, beta,
                   alpha_log, beta_log, init_vars, first_call>>

NextAmbient ==
    \/ \E log \in BOOLEAN : ForwardCell(log)
    \/ \E log \in BOOLEAN : BackwardCell(log)
    \/ \E log \in BOOLEAN : BackwardCellRaises(log)
    \/ FirstCall
    \/ ReassignA
    \/ ReassignEmission
    \/ ReassignBeta
    \/ SecondCall

InitAmbient ==
    /\ NoLabels
    /\ NoCalls
    /\ FixtureGrid

SpecAmbient == InitAmbient /\ [][NextAmbient]_vars

\* ------------------------------------------------------------------------
\* Properties
\* ------------------------------------------------------------------------
T_obs == Size(obs_sequence)
N_states == Size(A)

Positive(x) == IsFinite(x) /\ x # Zero

\* every entry of a finite matrix, rounded to 4 decimal places (times 10^4)
Rounded4(m) == [i \in DOMAIN m |-> [j \in DOMAIN m[i] |-> Round4(m[i][j])]]

\* the numeric example, run as the notebook runs it, after re-estimation
FixtureRun ==
    /\ obs_sequence = FixtureObs
    /\ pi = FixturePi
    /\ A = FixtureA
    /\ emission_matrix = FixtureB
    /\ alpha_log = "False"
    /\ beta_log = "False"
    /\ pc = "done"

\* C1: the numeric example (pi = [0.8, 0.2], A = [[0.6,0.4],[0.3,0.7]],
\* B = [[0.3,0.4,0.3],[0.4,0.3,0.3]], obs = [0,1,2,2], no normalization),
\* after forward, backward and one re-estimation, gives, to 4 decimal
\* places, new_pi = [0.7660, 0.2340], new_A = [[0.6277,0.3723],
\* [0.3128,0.6872]], new_B = [[0.3354,0.2608,0.4038],[0.1364,0.2356,0.6280]].
C1_ReferenceScenario ==
    FixtureRun =>
        /\ [i \in DOMAIN new_pi |-> Round4(new_pi[i])] = ZeroBased(<<7660, 2340>>)
        /\ Rounded4(new_transition_matrix) =
               ZeroBased(<<ZeroBased(<<6277, 3723>>), ZeroBased(<<3128, 6872>>)>>)
        /\ Rounded4(new_emission_matrix) =
               ZeroBased(<<ZeroBased(<<3354, 2608, 4038>>),
                           ZeroBased(<<1364, 2356, 6280>>)>>)

C1_Witness == FixtureRun /\ raised = "none" /\ Size(new_emission_matrix[0]) = 3

\* all the divisors of the posteriors and of the re-estimates are finite
\* and non-zero, for the alpha and beta now in the ambient variables
DenominatorsNonZero ==
    LET step_gammas == calculate_gammas(alpha, beta)
        alpha_cut == DropLastColumn(alpha)
    IN  /\ \A t \in DOMAIN obs_sequence :
               Positive(gamma_denomenator(alpha, beta)[t])
        /\ \A t \in DOMAIN alpha_cut[0] :
               Positive(zeta_denomenator(Column(alpha_cut, t), t, obs_sequence,
                                         A, emission_matrix, beta))
        /\ \A i \in DOMAIN step_gammas :
               /\ Positive(summed_gammas_A(step_gammas)[i])
               /\ Positive(summed_gammas_B(step_gammas)[i])

\* C2: for an observation of length T >= 2 whose posterior divisors are all
\* non-zero, with alpha and beta computed with or without per-step
\* normalization, the re-estimated new_pi sums to 1, and so does every row
\* of new_A and every row of new_B.
C2_RowStochasticPreserved ==
    (pc = "done" /\ T_obs >= 2 /\ DenominatorsNonZero) =>
        /\ VecSum(new_pi) = One
        /\ \A i \in DOMAIN new_transition_matrix :
               VecSum(new_transition_matrix[i]) = One
        /\ \A i \in DOMAIN new_emission_matrix :
               VecSum(new_emission_matrix[i]) = One

C2_Witness ==
    /\ pc = "done"
    /\ T_obs >= 2
    /\ DenominatorsNonZero
    /\ alpha_log = "True"
    /\ beta_log = "True"
    /\ new_transition_matrix # A
    /\ \A i \in DOMAIN A : \A j \in DOMAIN A : new_transition_matrix[i][j] # Zero

\* C4: for every number of states N >= 1, backward without normalization
\* returns an N x T table with beta[i, T-1] = 1 for every state i and
\* beta[i, t] = sum_j A[i,j] * B[j, obs[t+1]] * beta[j, t+1] for every
\* earlier t (for T = 1, just the column of ones).
C4_BackwardAnyStateCount ==
    beta_log = "False" =>
        /\ raised = "none"
        /\ DOMAIN beta = 0..(N_states - 1)
        /\ \A i \in DOMAIN beta :
               /\ DOMAIN beta[i] = 0..(T_obs - 1)
               /\ beta[i][T_obs - 1] = One
               /\ \A t \in 0..(T_obs - 2) :
                      beta[i][t] =
                          VecSum([j \in DOMAIN A |->
                              Mul(Mul(A[i][j], emission_matrix[j][obs_sequence[t + 1]]),
                                  beta[j][t + 1])])

\* the sum of gamma[i, t] over the positions t where the observation is k
GammaWhere(step_gammas, i, k) ==
    SumUpTo([t \in DOMAIN obs_sequence |->
                IF obs_sequence[t] = k THEN step_gammas[i][t] ELSE Zero],
            T_obs)

\* C5: new_B has one column for every symbol k of the alphabet 0..M-1, also
\* for symbols absent from the observation, and new_B[i, k] is the sum of
\* gamma[i, t] over the t with obs[t] = k divided by the sum over all t.
C5_EmissionColumnPerSymbol ==
    (pc = "done" /\ DenominatorsNonZero) =>
        LET step_gammas == calculate_gammas(alpha, beta)
        IN  /\ DOMAIN new_emission_matrix = 0..(N_states - 1)
            /\ \A i \in DOMAIN new_emission_matrix :
                   /\ DOMAIN new_emission_matrix[i] = DOMAIN emission_matrix[i]
                   /\ \A k \in DOMAIN emission_matrix[i] :
                          new_emission_matrix[i][k] =
                              Div(GammaWhere(step_gammas, i, k), VecSum(step_gammas[i]))

\* every column of gamma is well defined: its divisor is finite and non-zero
GammaColumnsDefined ==
    \A t \in DOMAIN obs_sequence : Positive(gamma_denomenator(alpha, beta)[t])

\* C7: when the gamma-row sum that divides row i is zero while every gamma
\* column is well defined, row i of new_A and row i of new_B are row i of
\* the A and B the iteration started from (nothing is divided by zero).
C7_ZeroOccupancyFallback ==
    (pc = "done" /\ GammaColumnsDefined) =>
        LET step_gammas == calculate_gammas(alpha, beta)
        IN  \A i \in DOMAIN A :
                /\ summed_gammas_A(step_gammas)[i] = Zero =>
                       new_transition_matrix[i] = A[i]
                /\ summed_gammas_B(step_gammas)[i] = Zero =>
                       new_emission_matrix[i] = emission_matrix[i]

\* C8: for an observation of length 1 the pass completes without raising:
\* forward and backward only initialize, and re-estimation returns.
C8_SingleObservationPass ==
    (T_obs = 1 /\ pc \in {"done", "stopped"} /\ ~backward_raises(beta)) =>
        /\ raised = "none"
        /\ pc = "done"
        /\ \A i \in DOMAIN beta : beta[i][0] = One
        /\ alpha_log = "False" =>
               \A i \in DOMAIN alpha :
                   alpha[i][0] = Mul(pi[i], emission_matrix[i][obs_sequence[0]])

\* the result of an initializer is absent or an InvalidInputError
Rejected(r) == r.exc \in {"unset", "InvalidInputError"}

\* C9: an empty state sequence, or state and observation sequences of
\* different lengths, end the initializer in InvalidInputError; it returns
\* no parameters.
C9_InitializerRejectsInvalid ==
    /\ Size(hid_seq) = 0 => Rejected(init_pi) /\ Rejected(init_A) /\ Rejected(init_B)
    /\ Size(hid_seq) # Size(lab_obs_seq) => Rejected(init_B)

\* the labeled sequence is over the states 0..N-1 and every state occurs
EveryStateOccurs == Range(hid_seq) = 0..(Cardinality(Range(hid_seq)) - 1)

\* C6: for a non-empty labeled sequence of length T in which every state
\* 0..N-1 occurs, hidden_state_init returns the vector of length N whose
\* entry i is (number of positions labeled i) / T.
C6_InitialDistributionByState ==
    (init_pi.exc # "unset" /\ Size(hid_seq) >= 1 /\ EveryStateOccurs) =>
        /\ init_pi.exc = "none"
        /\ init_pi.val =
               [i \in 0..(Cardinality(Range(hid_seq)) - 1) |->
                   Frac(CountOf(hid_seq, i), Size(hid_seq))]

\* C10: for a labeled sequence of length T >= 2 in which every state
\* 0..N-1 occurs, trans_mat_init returns the N x N matrix with
\* A[i,j] = count(i -> j) / count(i), 0 for pairs never seen, and every row
\* (also that of the state labeling the last position) sums to 1.
C10_InitialTransitionMatrixStochastic ==
    (init_A.exc # "unset" /\ Size(hid_seq) >= 2 /\ EveryStateOccurs) =>
        /\ init_A.exc = "none"
        /\ DOMAIN init_A.val = Range(hid_seq)
        /\ \A i \in DOMAIN init_A.val :
               /\ DOMAIN init_A.val[i] = Range(hid_seq)
               /\ \A j \in DOMAIN init_A.val[i] :
                      init_A.val[i][j] =
                          Frac(transition_count(hid_seq, i, j), CountOf(hid_seq, i))
               /\ VecSum(init_A.val[i]) = One

\* C11: re_estimate_parameters depends only on its explicit inputs: two calls
\* with equal arguments (B, alpha, beta) and the same observation sequence
\* return equal results, whatever was assigned to the ambient A,
\* emission_matrix and beta between them.
C11_ResultsDependOnlyOnArguments ==
    (/\ first_call.made
     /\ second_call.made
     /\ first_call.args = second_call.args
     /\ first_call.obs = second_call.obs)
        => first_call.out = second_call.out

====
